---- MODULE Spec2Model ----
(***************************************************************************)
(* Model of src/test-sample.rs: an in-memory user store (UserRepository,   *)
(* a HashMap<u64, User>) and a service (UserService) that borrows the      *)
(* repository mutably and creates users with identifier len() + 1.         *)
(*                                                                         *)
(* Option<T> is modelled as a set with at most one element: None is {},    *)
(* Some(v) is {v}.  A reference &User is modelled by the value it points   *)
(* to.  Identifiers are u64 and len() is usize; within the bounds below    *)
(* no arithmetic comes near 2^64, so the cast `as u64` loses nothing.      *)
(***************************************************************************)
EXTENDS Integers, FiniteSets, Sequences, Bags, TLC

\* ------------------------------------------------------------------ bounds
MaxId == 2
MaxUsers == 2
MaxFutures == 2

\* identifiers given to the calls: the small ones the service can generate
\* and one far from them
Ids == (0..MaxId) \cup {5}
Names == {"Ann", "Bob"}
Emails == {"ann@x.com", "bob@x.com"}

\* struct User { id, name, email }
User == [id : Ids, name : Names, email : Emails]

VARIABLES
    users,      \* UserRepository.users : HashMap<u64, User>
    service,    \* TRUE while a UserService holds the &mut borrow of the repository
    fut,        \* the live get_by_id_async futures, suspended in sleep: a bag of ids
    ret,        \* the last call made: operation, arguments, returned value
    inserted,   \* history: identifiers of all entities ever passed to add
    direct,     \* history: TRUE once add was called other than by create_user
    created     \* history: users returned by create_user while direct = FALSE

vars == <<users, service, fut, ret, inserted, direct, created>>

\* ------------------------------------------------------------ Option, Clone
None == {}
Some(v) == {v}

\* #[derive(Clone)] for User: a field-by-field copy
clone(u) == [id |-> u.id, name |-> u.name, email |-> u.email]

\* Option<&User>::cloned()
cloned(o) == {clone(u) : u \in o}

\* ---------------------------------------------------------------- HashMap
\* HashMap::new()
HashMapNew == << >>

\* HashMap::len()
len(us) == Cardinality(DOMAIN us)

\* HashMap::get(&id)
get(us, id) == IF id \in DOMAIN us THEN Some(us[id]) ELSE None

\* HashMap::insert(k, v): the map afterwards
insert(us, k, v) == [j \in (DOMAIN us) \cup {k} |-> IF j = k THEN v ELSE us[j]]

\* ---------------------------------------------------------- UserRepository
\* UserRepository::new
UserRepositoryNew == HashMapNew

\* a plausible slip: the key looked up is off by one
get_by_id_off(us, id) == get(us, id + 1)

\* Repository::get_by_id
get_by_id(us, id) == get(us, id)

\* a plausible slip: entry().or_insert(), which keeps the first entity
add_keepFirst(us, entity) ==
    IF entity.id \in DOMAIN us THEN us ELSE insert(us, entity.id, entity)

\* a plausible slip: keyed by the current size instead of the entity's id
add_byLen(us, entity) == insert(us, len(us), entity)

\* a plausible slip: the map is rebuilt, dropping the other entries
add_reset(us, entity) == insert(HashMapNew, entity.id, entity)

\* Repository::add: the map after self.users.insert(entity.id, entity)
add(us, entity) == insert(us, entity.id, entity)

\* a plausible slip: the lookup is skipped and None returned
get_by_id_async_none(us, id) == None

\* UserRepository::get_by_id_async: the value yielded after the sleep
get_by_id_async(us, id) == cloned(get(us, id))

\* ------------------------------------------------------------- UserService
\* a plausible slip: the + 1 is forgotten
generate_id_noInc(us) == len(us)

\* a plausible "fix": one more than the largest key in use
generate_id_maxKey(us) ==
    IF DOMAIN us = {} THEN 1
    ELSE (CHOOSE m \in DOMAIN us : \A j \in DOMAIN us : j <= m) + 1

\* UserService::generate_id
generate_id(us) == len(us) + 1

\* a plausible slip: name and email exchanged in the struct literal
new_user_swapped(us, name, email) ==
    [id |-> generate_id(us), name |-> email, email |-> name]

\* UserService::create_user, the struct literal: the user built and returned
new_user(us, name, email) ==
    [id |-> generate_id(us), name |-> name, email |-> email]

\* a plausible slip: get-or-create, an occupied identifier is left alone
create_user_ifAbsent(us, name, email) ==
    IF generate_id(us) \in DOMAIN us THEN us
    ELSE add(us, clone(new_user(us, name, email)))

\* UserService::create_user, the repository after self.repository.add(user.clone())
create_user_repo(us, name, email) == add(us, clone(new_user(us, name, email)))

\* ------------------------------------------------------------------- state
TypeOK ==
    /\ DOMAIN users \subseteq Ids
    /\ \A k \in DOMAIN users : users[k] \in User
    /\ service \in BOOLEAN
    /\ IsABag(fut) /\ BagToSet(fut) \subseteq Ids
    /\ BagCardinality(fut) <= MaxFutures
    /\ inserted \subseteq Ids
    /\ direct \in BOOLEAN
    /\ ret.op \in {"new", "add", "get_by_id", "create_user", "sleep",
                   "get_by_id_async", "drop_async"}

\* the record of a call; returned is FALSE while it is suspended or dropped
Call(op, id, name, email, returned, res, old, preLen) ==
    [op |-> op, id |-> id, name |-> name, email |-> email,
     returned |-> returned, res |-> res, old |-> old, preLen |-> preLen]

\* let mut repo = UserRepository::new();
Init ==
    /\ users = UserRepositoryNew
    /\ service = FALSE
    /\ fut = EmptyBag
    /\ ret = Call("new", {}, "", "", TRUE, None, None, 0)
    /\ inserted = {}
    /\ direct = FALSE
    /\ created = << >>

\* room for the entry a call is about to write (model bound, not the code's)
Fits(us, id) == id \in Ids /\ (id \in DOMAIN us \/ len(us) < MaxUsers)

\* UserService::new(&mut repo): needs the repository unborrowed
ServiceNew ==
    /\ ~service /\ fut = EmptyBag
    /\ service' = TRUE
    /\ UNCHANGED <<users, fut, ret, inserted, direct, created>>

\* the UserService<'a> goes out of use and the &mut borrow ends
ServiceDrop ==
    /\ service
    /\ service' = FALSE
    /\ UNCHANGED <<users, fut, ret, inserted, direct, created>>

\* repo.add(entity), called directly: &mut self, so no future and no service
Add(entity) ==
    /\ ~service /\ fut = EmptyBag
    /\ Fits(users, entity.id)
    /\ users' = add(users, entity)
    /\ ret' = Call("add", {entity.id}, entity.name, entity.email, TRUE,
                   None, get(users, entity.id), len(users))
    /\ inserted' = inserted \cup {entity.id}
    /\ direct' = TRUE
    /\ created' = << >>
    /\ UNCHANGED <<service, fut>>

\* repo.get_by_id(id): &self, allowed while a future shares the borrow
GetById(id) ==
    /\ ~service
    /\ ret' = Call("get_by_id", {id}, "", "", TRUE,
                   get_by_id(users, id), None, len(users))
    /\ users' = users
    /\ UNCHANGED <<service, fut, inserted, direct, created>>

\* service.create_user(name, email)
CreateUser(name, email) ==
    /\ service
    /\ LET user == new_user(users, name, email) IN
        /\ Fits(users, user.id)
        /\ users' = create_user_repo(users, name, email)
        /\ ret' = Call("create_user", {}, name, email, TRUE,
                       Some(user), get(users, user.id), len(users))
        /\ inserted' = inserted \cup {clone(user).id}
        /\ created' = IF direct THEN << >> ELSE Append(created, user)
    /\ UNCHANGED <<service, fut, direct>>

\* repo.get_by_id_async(id) polled up to the sleep: the future holds &self,
\* a shared borrow, so any number of futures can be suspended at once
AsyncStart(id) ==
    /\ ~service
    /\ BagCardinality(fut) < MaxFutures
    /\ fut' = fut (+) SetToBag({id})
    /\ ret' = Call("sleep", {id}, "", "", FALSE, None, None, len(users))
    /\ UNCHANGED <<users, service, inserted, direct, created>>

\* the 100 ms of one future have elapsed: its lookup runs and it completes
AsyncComplete(id) ==
    /\ BagIn(id, fut)
    /\ ret' = Call("get_by_id_async", {id}, "", "", TRUE,
                   get_by_id_async(users, id), None, len(users))
    /\ fut' = fut (-) SetToBag({id})
    /\ users' = users
    /\ UNCHANGED <<service, inserted, direct, created>>

\* one future is dropped during the sleep: nothing is returned
AsyncCancel(id) ==
    /\ BagIn(id, fut)
    /\ ret' = Call("drop_async", {id}, "", "", FALSE, None, None, len(users))
    /\ fut' = fut (-) SetToBag({id})
    /\ users' = users
    /\ UNCHANGED <<service, inserted, direct, created>>

Next ==
    \/ ServiceNew
    \/ ServiceDrop
    \/ \E entity \in User : Add(entity)
    \/ \E id \in Ids : GetById(id)
    \/ \E name \in Names, email \in Emails : CreateUser(name, email)
    \/ \E id \in Ids : AsyncStart(id)
    \/ \E id \in Ids : AsyncComplete(id)
    \/ \E id \in Ids : AsyncCancel(id)

Spec == Init /\ [][Next]_vars

\* ------------------------------------------------------------------ claims

\* C1: immediately after add(e), get_by_id(e.id) is present and has the
\* identifier, name and email of e.
C1_AddThenGet ==
    ret.op = "add" =>
        /\ ret.id # {}
        /\ \A i \in ret.id :
            /\ get_by_id(users, i) # None
            /\ \A r \in get_by_id(users, i) :
                r.id = i /\ r.name = ret.name /\ r.email = ret.email

\* an add that replaced an entity holding other data has just returned
C1_Witness ==
    /\ ret.op = "add"
    /\ ret.old # None
    /\ \E o \in ret.old : o.name # ret.name /\ o.email # ret.email
    /\ \E i \in ret.id : get_by_id(users, i) # ret.old

\* C2: create_user returns an entity whose identifier is the number of
\* entries before the call plus one, whichever identifiers are occupied.
C2_IdIsSizePlusOne ==
    ret.op = "create_user" =>
        /\ ret.res # None
        /\ \A u \in ret.res : u.id = ret.preLen + 1

\* one entity was added at identifier 5, then create_user returned identifier 2
C2_Witness ==
    /\ ret.op = "create_user"
    /\ ret.preLen = 1
    /\ DOMAIN users = {2, 5}
    /\ ret.old = None
    /\ \E u \in ret.res : u.id = 2

\* C3: the entity returned by create_user carries the given name and email,
\* and get_by_id of its identifier returns an entity with the same
\* identifier, name and email.
C3_CreateThenGet ==
    ret.op = "create_user" =>
        /\ ret.res # None
        /\ \A u \in ret.res :
            /\ u.name = ret.name /\ u.email = ret.email
            /\ get_by_id(users, u.id) # None
            /\ \A r \in get_by_id(users, u.id) :
                r.id = u.id /\ r.name = u.name /\ r.email = u.email

\* on a new repository create_user("Ann", "ann@x.com") returned identifier 1
C3_Witness ==
    /\ ret.op = "create_user"
    /\ ret.preLen = 0
    /\ ret.res = Some([id |-> 1, name |-> "Ann", email |-> "ann@x.com"])
    /\ get_by_id(users, 1) = Some([id |-> 1, name |-> "Ann", email |-> "ann@x.com"])

\* C4: from an empty repository with create_user only, the k-th call returns
\* identifier k, the size grows by one per call, nothing is overwritten and
\* every created user stays retrievable under its own identifier.
C4_SequentialIds ==
    ~direct =>
        /\ len(users) = Len(created)
        /\ \A k \in 1..Len(created) :
            /\ created[k].id = k
            /\ get_by_id(users, k) = Some(created[k])
        /\ ret.op = "create_user" =>
            /\ ret.old = None
            /\ len(users) = ret.preLen + 1
            /\ ret.res = Some(created[Len(created)])

\* two users were created through the service alone: identifiers 1 and 2
C4_Witness ==
    /\ ~direct
    /\ ret.op = "create_user"
    /\ Len(created) = 2
    /\ created[1].id = 1 /\ created[2].id = 2
    /\ created[1].name # created[2].name
    /\ get_by_id(users, 1) = Some(created[1])
    /\ get_by_id(users, 2) = Some(created[2])

\* C5: an add under an identifier that is already stored leaves one entry at
\* that identifier, holding the second entity's data; the size does not grow
\* and the call returns normally.
C5_Overwrite ==
    (ret.op = "add" /\ ret.old # None) =>
        /\ ret.returned
        /\ len(users) = ret.preLen
        /\ \A i \in ret.id :
            /\ get_by_id(users, i) =
                   Some([id |-> i, name |-> ret.name, email |-> ret.email])
            /\ Cardinality({k \in DOMAIN users : users[k].id = i}) = 1

\* e2 replaced a different e1 in a repository that holds other entries too
C5_Witness ==
    /\ ret.op = "add"
    /\ ret.old # None
    /\ \E i \in ret.id : get_by_id(users, i) # ret.old
    /\ len(users) >= 2

\* C6: get_by_id is absent for every identifier that was never the
\* identifier of an entity passed to add; on a new repository every lookup
\* is absent.
C6_NeverInsertedAbsent ==
    /\ \A id \in Ids \ inserted : get_by_id(users, id) = None
    /\ ret.op = "get_by_id" =>
        \A i \in ret.id : i \notin inserted => ret.res = None
    /\ ret.op = "new" => \A id \in Ids : get_by_id(users, id) = None

\* a lookup of a never-inserted identifier next to an inserted one
C6_Witness ==
    /\ ret.op = "get_by_id"
    /\ ret.res = None
    /\ \E i \in ret.id : i \notin inserted /\ i + 1 \in inserted

\* C7: when create_user generates an identifier that is occupied (which
\* takes a direct add), it overwrites: the entry holds the new entity, the
\* earlier data is gone, the size is unchanged and the call returns normally.
C7_SilentOverwrite ==
    (ret.op = "create_user" /\ ret.old # None) =>
        /\ direct
        /\ ret.returned
        /\ len(users) = ret.preLen
        /\ ret.res # None
        /\ \A u \in ret.res :
            /\ get_by_id(users, u.id) = Some(u)
            /\ \A o \in ret.old :
                o # u => \A k \in DOMAIN users : users[k] # o

\* create_user has just replaced an entity holding other data
C7_Witness ==
    /\ ret.op = "create_user"
    /\ ret.old # None
    /\ ret.old # ret.res
    /\ \A u \in ret.res : u.id \in DOMAIN users /\ users[u.id] = u

\* C8: every stored entity's identifier field equals its key, so a present
\* get_by_id(id) is a single entity with identifier id.
C8_KeyIsId ==
    /\ \A k \in DOMAIN users : users[k].id = k
    /\ \A id \in Ids :
        /\ Cardinality(get_by_id(users, id)) <= 1
        /\ \A r \in get_by_id(users, id) : r.id = id

\* a full repository holding entries from add and from create_user
C8_Witness ==
    /\ len(users) = MaxUsers
    /\ direct
    /\ ret.op = "create_user"

\* C9: when a future of get_by_id_async ends, the mapping is unchanged;
\* if it completed, it yields what get_by_id gives for the same identifier
\* on that repository, and if it was dropped nothing is returned.
C9_AsyncSameAsSync ==
    [][BagCardinality(fut') < BagCardinality(fut) =>
          /\ users' = users
          /\ ret'.op \in {"get_by_id_async", "drop_async"}
          /\ ret'.id # {}
          /\ \A id \in ret'.id :
              /\ BagIn(id, fut)
              /\ fut' = fut (-) SetToBag({id})
              /\ ret'.op = "get_by_id_async" =>
                  /\ ret'.returned
                  /\ ret'.res = get_by_id(users, id)
                  /\ ret'.res = get_by_id(users', id)
          /\ ret'.op = "drop_async" => (~ret'.returned /\ ret'.res = None)
      ]_vars

\* an asynchronous lookup has completed with a present entity while another
\* future is still suspended
C9_Witness ==
    /\ ret.op = "get_by_id_async"
    /\ ret.res # None
    /\ fut # EmptyBag
    /\ \A id \in ret.id : ret.res = get_by_id(users, id) /\ ~BagIn(id, fut)

\* C10: a step changes get_by_id(j) only if it is an add or a create_user of
\* an entity whose identifier is j; lookups change nothing.
C10_Frame ==
    [][\A j \in Ids :
          get_by_id(users', j) # get_by_id(users, j) =>
              /\ ret'.op \in {"add", "create_user"}
              /\ ret'.op = "add" => j \in ret'.id
              /\ ret'.op = "create_user" => \E u \in ret'.res : u.id = j
      ]_vars

\* an add of a new identifier next to entries that stayed as they were
C10_Witness ==
    /\ ret.op = "add"
    /\ ret.old = None
    /\ ret.preLen >= 1
    /\ len(users) = ret.preLen + 1

====
